---- MODULE Spec2Model ----
(***************************************************************************)
(* Model of notebooks/5.tflite-model-for-pico.ipynb: the Keras -> TFLite   *)
(* conversion pipeline (cells 2, 3, 4 and 6) run once, top to bottom.      *)
(*                                                                         *)
(* Every statement of the notebook is one action.  A library call may      *)
(* raise; an exception stops the run (pc = "failed").  subprocess.run is   *)
(* called without check=True, so a non-zero exit status of xxd is NOT an   *)
(* exception.                                                              *)
(*                                                                         *)
(* Abstractions.  The records of a dataset are distinct files, so a split  *)
(* of n records holds the images 1..n in order; an image is a tensor       *)
(* record [split, id, pixels, dtype, rank], where pixels is one of a few   *)
(* pixel contents (image i has content 1 + (i-1) mod |Pixels|).  A .tflite *)
(* file is a sequence of numbers; the interpreter decodes it into one      *)
(* output score vector per pixel content (Infer).  The iteration order of  *)
(* a dataset is the same each time it is iterated.                         *)
(***************************************************************************)
EXTENDS Integers, Sequences, FiniteSets

\* ---- bounds of the model ----
MaxVal == 3
MaxTest == 3
MaxCalls == 2
BatchSize == 2

\* class labels, the scores of an output vector, the pixel contents an image may
\* have, and the dtypes a dataset may have
Labels == {0, 1}
Scores == {0, 1}
Pixels == {1, 2}
DTypes == {"uint8", "float32"}

NumClasses == Cardinality(Labels)

KERAS == "../artifacts/eurosat.keras"
TFLITE == "../artifacts/eurosat.tflite"
HEADER == "../artifacts/eurosat.h"
PICO == "../lite/pico/eurosat.h"
Paths == {KERAS, TFLITE, HEADER, PICO}

VARIABLES pc, error, val, test, fs, model, converter, tflite_model,
          gen, samples, calls, xxd_rc, stdout, tflite_size, header_size,
          lite, true, pred, it, image, label, output, result, val_accuracy,
          log, api, reads

vars == <<pc, error, val, test, fs, model, converter, tflite_model,
          gen, samples, calls, xxd_rc, stdout, tflite_size, header_size,
          lite, true, pred, it, image, label, output, result, val_accuracy,
          log, api, reads>>

\* ---- values ----------------------------------------------------------------

Max(a, b) == IF a >= b THEN a ELSE b

\* an image of a dataset: file number i of a split, as an (H, W, C) array
Tensor(s, i, d) ==
  [split |-> s, id |-> i, pixels |-> 1 + ((i - 1) % Cardinality(Pixels)),
   dtype |-> d, rank |-> 3]
NoTensor == [split |-> "", id |-> 0, pixels |-> 0, dtype |-> "", rank |-> 0]

\* files: absent, the saved Keras model, a binary file, the text xxd -i writes
NoFile == [kind |-> "none"]
KerasFile == [kind |-> "keras"]
BinFile(b) == [kind |-> "bin", bytes |-> b]
HeaderFile(a, n) == [kind |-> "c_header", name |-> "eurosat_tflite", array |-> a, len |-> n]

\* xxd -i infile outfile: the bytes as a C array and their count
Xxd(f) == HeaderFile(f.bytes, Len(f.bytes))
\* what xxd leaves behind when it dies while writing: a cut array, no length
XxdPartial(f) == HeaderFile(SubSeq(f.bytes, 1, Len(f.bytes) - 1), -1)

\* pathlib.Path(p).stat().st_size ("0x00, " is 6 characters per byte)
StSize(f) ==
  IF f.kind = "bin" THEN Len(f.bytes)
  ELSE IF f.kind = "c_header" THEN 6 * Len(f.array) + 2
  ELSE 0

\* ---- datasets ----------------------------------------------------------------

RECURSIVE Batch(_, _)
\* dataset.batch(b): consecutive chunks of b records, the last one possibly shorter
Batch(s, b) ==
  IF s = <<>> THEN <<>>
  ELSE IF Len(s) <= b THEN <<s>>
  ELSE <<SubSeq(s, 1, b)>> \o Batch(SubSeq(s, b + 1, Len(s)), b)

RECURSIVE Unbatch(_)
\* dataset.unbatch(): the records of the batches, batch after batch
Unbatch(ds) ==
  IF ds = <<>> THEN <<>> ELSE Head(ds) \o Unbatch(Tail(ds))

\* dataset.take(n): the first n batches
Take(ds, n) == SubSeq(ds, 1, IF Len(ds) < n THEN Len(ds) ELSE n)

\* the datasets load_eurosat can return: n distinct images in order, batched
TestSets(d) == {Batch([i \in 1..n |-> [image |-> Tensor("test", i, d), label |-> 0]],
                        BatchSize) : n \in 1..MaxTest}
ValRecords(n, d) == {[i \in 1..n |-> [image |-> Tensor("val", i, d), label |-> l[i]]] :
                       l \in [1..n -> Labels]}
ValSets(d) == UNION {{Batch(r, BatchSize) : r \in ValRecords(n, d)} : n \in 1..MaxVal}

\* ---- the converted model -------------------------------------------------------

\* the byte strings converter.convert() can return
ModelBytes == [1..(Cardinality(Pixels) * NumClasses) -> Scores]
\* the model a previous run left on disk
StaleBytes == [i \in 1..(Cardinality(Pixels) * NumClasses) |-> 0]

\* faulty variant: ndmin forgotten, np.array(image, dtype=np.float32)
NpArrayNoNdmin(t, dtype, ndmin) == [t EXCEPT !.dtype = dtype]

\* np.array(image, dtype=..., ndmin=...)
NpArray(t, dtype, ndmin) == [t EXCEPT !.dtype = dtype, !.rank = Max(t.rank, ndmin)]

\* the interpreter's computation: a batch of one image in, one score vector out
Infer(bytes, input) ==
  [b \in 1..Len(input) |->
     [k \in 1..NumClasses |-> bytes[(input[b].pixels - 1) * NumClasses + k]]]

\* np.argmax: index (from 0) of the first maximum of the flattened array
Argmax(a) ==
  LET flat == Unbatch(a)
  IN  (CHOOSE i \in 1..Len(flat) :
         /\ \A j \in 1..Len(flat) : flat[j] <= flat[i]
         /\ \A j \in 1..(i - 1) : flat[j] < flat[i]) - 1

RECURSIVE CountEqual(_, _)
CountEqual(t, p) ==
  IF t = <<>> \/ p = <<>> THEN 0
  ELSE (IF Head(t) = Head(p) THEN 1 ELSE 0) + CountEqual(Tail(t), Tail(p))

\* faulty variant: accuracy_score(true, pred, normalize=False), the count of agreements
AccuracyScoreCount(t, p) == [correct |-> CountEqual(t, p), total |-> 1]

\* sklearn.metrics.accuracy_score: the fraction of positions where the lists agree
AccuracyScore(t, p) == [correct |-> CountEqual(t, p), total |-> Len(t)]

\* f"{val_accuracy * 100:.2f}": hundredths of a percent, rounded to nearest
Percent(a) == (20000 * a.correct + a.total) \div (2 * a.total)

\* ---- bookkeeping ---------------------------------------------------------------

Logged(stage, ok) == Append(log, [stage |-> stage, ok |-> ok])

\* an exception raised by statement `stage` stops the run
Raise(stage) ==
  /\ pc' = "failed"
  /\ error' = stage
  /\ log' = Logged(stage, FALSE)

\* statement `stage` returns normally and control moves to `next`
Return(stage, next) ==
  /\ pc' = next
  /\ error' = error
  /\ log' = Logged(stage, TRUE)

NoInterpreter == [loaded |-> FALSE, bytes |-> <<>>, allocated |-> FALSE,
                  input |-> <<>>, output |-> <<>>]
NoGenerator == [active |-> FALSE, images |-> <<>>, idx |-> 0]

\* ---- initial state: kernel started, nothing run yet ------------------------------

Init ==
  /\ pc = "load_eurosat"
  /\ error = ""
  /\ val = <<>> /\ test = <<>>
  /\ \E stale \in BOOLEAN :
       fs = [p \in Paths |->
               IF p = KERAS THEN KerasFile
               ELSE IF p = HEADER \/ ~stale THEN NoFile
               ELSE IF p = TFLITE THEN BinFile(StaleBytes)
               ELSE Xxd(BinFile(StaleBytes))]
  /\ model = "" /\ tflite_model = <<>>
  /\ converter = [model |-> "", optimizations |-> <<>>, representative_dataset |-> ""]
  /\ gen = NoGenerator /\ samples = <<>> /\ calls = 0
  /\ xxd_rc = -1 /\ stdout = <<>>
  /\ tflite_size = -1 /\ header_size = -1
  /\ lite = NoInterpreter /\ true = <<>> /\ pred = <<>> /\ it = 0
  /\ image = NoTensor /\ label = -1 /\ output = <<>> /\ result = -1
  /\ val_accuracy = [correct |-> 0, total |-> 0]
  /\ log = <<>> /\ api = <<>> /\ reads = {}

\* ---- variable groups ---------------------------------------------------------------

dataVars == <<val, test>>
convVars == <<model, converter, tflite_model>>
genVars == <<gen, samples, calls>>
cell4Vars == <<tflite_size, header_size>>
loopVars == <<true, pred, it, image, label, output, result>>
evalVars == <<lite, true, pred, it, image, label, output, result, val_accuracy, api>>

\* ---- cell 2 ---------------------------------------------------------------------------

\* (_, val, test) = load_eurosat()
LoadEurosat ==
  /\ pc = "load_eurosat"
  /\ \E d \in DTypes :
       /\ val' \in ValSets(d)
       /\ test' \in TestSets(d)
  /\ Return("load_eurosat", "load_model")
  /\ UNCHANGED <<fs, convVars, genVars, xxd_rc, stdout, cell4Vars, evalVars, reads>>

\* ---- cell 3 ---------------------------------------------------------------------------

\* model = tf.keras.models.load_model("../artifacts/eurosat.keras")
LoadModel ==
  /\ pc = "load_model"
  /\ \/ /\ fs[KERAS].kind = "keras"
        /\ model' = "keras"
        /\ Return("load_model", "from_keras_model")
     \/ /\ model' = model
        /\ Raise("load_model")
  /\ UNCHANGED <<dataVars, fs, converter, tflite_model, genVars, xxd_rc, stdout,
                 cell4Vars, evalVars, reads>>

\* converter = tf.lite.TFLiteConverter.from_keras_model(model)
FromKerasModel ==
  /\ pc = "from_keras_model"
  /\ converter' = [converter EXCEPT !.model = model]
  /\ Return("from_keras_model", "optimizations")
  /\ UNCHANGED <<dataVars, fs, model, tflite_model, genVars, xxd_rc, stdout,
                 cell4Vars, evalVars, reads>>

\* converter.optimizations = [tf.lite.Optimize.DEFAULT]
SetOptimizations ==
  /\ pc = "optimizations"
  /\ converter' = [converter EXCEPT !.optimizations = <<"DEFAULT">>]
  /\ Return("optimizations", "representative_dataset")
  /\ UNCHANGED <<dataVars, fs, model, tflite_model, genVars, xxd_rc, stdout,
                 cell4Vars, evalVars, reads>>

\* def representative_dataset_generator(): ...
\* converter.representative_dataset = representative_dataset_generator
SetRepresentativeDataset ==
  /\ pc = "representative_dataset"
  /\ converter' = [converter EXCEPT
                     !.representative_dataset = "representative_dataset_generator"]
  /\ Return("representative_dataset", "convert")
  /\ UNCHANGED <<dataVars, fs, model, tflite_model, genVars, xxd_rc, stdout,
                 cell4Vars, evalVars, reads>>

\* faulty variant: the generator calibrates on the validation dataset, val.take(1)
GeneratorStartFromVal ==
  /\ pc = "convert"
  /\ converter.representative_dataset = "representative_dataset_generator"
  /\ ~gen.active
  /\ calls < MaxCalls
  /\ calls' = calls + 1
  /\ samples' = <<>>
  /\ LET first == Take(val, 1)
     IN  gen' = [active |-> TRUE,
                 images |-> [i \in 1..Len(first[1]) |-> first[1][i].image],
                 idx |-> 0]
  /\ reads' = reads \cup {[dataset |-> "val", by |-> "representative_dataset_generator"]}
  /\ UNCHANGED <<pc, error, log, dataVars, fs, convVars, xxd_rc, stdout, cell4Vars,
                 evalVars>>

\* converter.convert() calls the hook and starts iterating it; the generator body runs
\* up to its loop:  images, _labels = test.take(1).as_numpy_iterator().next()
GeneratorStart ==
  /\ pc = "convert"
  /\ converter.representative_dataset = "representative_dataset_generator"
  /\ ~gen.active
  /\ calls < MaxCalls
  /\ calls' = calls + 1
  /\ samples' = <<>>
  /\ LET first == Take(test, 1)
     IN  gen' = [active |-> TRUE,
                 images |-> [i \in 1..Len(first[1]) |-> first[1][i].image],
                 idx |-> 0]
  /\ reads' = reads \cup {[dataset |-> "test", by |-> "representative_dataset_generator"]}
  /\ UNCHANGED <<pc, error, log, dataVars, fs, convVars, xxd_rc, stdout, cell4Vars,
                 evalVars>>

\* for image in images:  yield [np.array(image, dtype=np.float32, ndmin=4)]
GeneratorYield ==
  /\ pc = "convert"
  /\ gen.active
  /\ gen.idx < Len(gen.images)
  /\ samples' = Append(samples, <<NpArray(gen.images[gen.idx + 1], "float32", 4)>>)
  /\ gen' = [gen EXCEPT !.idx = gen.idx + 1]
  /\ UNCHANGED <<pc, error, log, dataVars, fs, convVars, calls, xxd_rc, stdout,
                 cell4Vars, evalVars, reads>>

\* the loop is over: the generator returns (StopIteration at the consumer)
GeneratorStop ==
  /\ pc = "convert"
  /\ gen.active
  /\ gen.idx = Len(gen.images)
  /\ gen' = [gen EXCEPT !.active = FALSE]
  /\ UNCHANGED <<pc, error, log, dataVars, fs, convVars, samples, calls, xxd_rc,
                 stdout, cell4Vars, evalVars, reads>>

\* faulty variant: the statement writing eurosat.tflite is missing, xxd follows convert
ConvertThenXxd ==
  /\ pc = "convert"
  /\ ~gen.active
  /\ \/ /\ tflite_model' \in ModelBytes
        /\ Return("convert", "xxd")
     \/ /\ tflite_model' = tflite_model
        /\ Raise("convert")
  /\ gen' = NoGenerator /\ samples' = <<>> /\ calls' = 0
  /\ UNCHANGED <<dataVars, fs, model, converter, xxd_rc, stdout, cell4Vars,
                 evalVars, reads>>

\* tflite_model = converter.convert()
\* (the generator objects of the calibration die with the call)
Convert ==
  /\ pc = "convert"
  /\ ~gen.active
  /\ \/ /\ tflite_model' \in ModelBytes
        /\ Return("convert", "write")
     \/ /\ tflite_model' = tflite_model
        /\ Raise("convert")
  /\ gen' = NoGenerator /\ samples' = <<>> /\ calls' = 0
  /\ UNCHANGED <<dataVars, fs, model, converter, xxd_rc, stdout, cell4Vars,
                 evalVars, reads>>

\* faulty variant: the bytes stay in the buffer of the never-closed file object
WriteTfliteUnflushed ==
  /\ pc = "write"
  /\ \/ /\ fs' = [fs EXCEPT ![TFLITE] = BinFile(<<>>)]
        /\ Return("write", "xxd")
     \/ /\ fs' \in {fs, [fs EXCEPT ![TFLITE] = BinFile(<<>>)]}
        /\ Raise("write")
  /\ UNCHANGED <<dataVars, convVars, genVars, xxd_rc, stdout, cell4Vars, evalVars,
                 reads>>

\* open("../artifacts/eurosat.tflite", "wb").write(tflite_model)
WriteTflite ==
  /\ pc = "write"
  /\ \/ /\ fs' = [fs EXCEPT ![TFLITE] = BinFile(tflite_model)]
        /\ Return("write", "xxd")
     \/ /\ fs' \in {fs, [fs EXCEPT ![TFLITE] = BinFile(<<>>)]}
        /\ Raise("write")
  /\ UNCHANGED <<dataVars, convVars, genVars, xxd_rc, stdout, cell4Vars, evalVars,
                 reads>>

\* subprocess.run(["xxd", "-i", "eurosat.tflite", "eurosat.h"], cwd="../artifacts")
\* No check=True: a non-zero exit status is returned, not raised.  Only a process
\* that cannot be started (no xxd, no cwd) raises.
RunXxd ==
  /\ pc = "xxd"
  /\ \/ /\ fs[TFLITE].kind = "bin"
        /\ fs' = [fs EXCEPT ![HEADER] = Xxd(fs[TFLITE])]
        /\ xxd_rc' = 0
        /\ Return("xxd", "move")
     \/ /\ fs' \in {fs} \cup (IF fs[TFLITE].kind = "bin"
                              THEN {[fs EXCEPT ![HEADER] = XxdPartial(fs[TFLITE])]}
                              ELSE {})
        /\ xxd_rc' = 1
        /\ pc' = "move"
        /\ error' = error
        /\ log' = Logged("xxd", FALSE)
     \/ /\ fs' = fs
        /\ xxd_rc' = xxd_rc
        /\ Raise("xxd")
  /\ UNCHANGED <<dataVars, convVars, genVars, stdout, cell4Vars, evalVars, reads>>

\* shutil.move("../artifacts/eurosat.h", "../lite/pico/eurosat.h")
MoveHeader ==
  /\ pc = "move"
  /\ \/ /\ fs[HEADER].kind # "none"
        /\ fs' = [fs EXCEPT ![PICO] = fs[HEADER], ![HEADER] = NoFile]
        /\ Return("move", "print_converted")
     \/ /\ fs' = fs
        /\ Raise("move")
  /\ UNCHANGED <<dataVars, convVars, genVars, xxd_rc, stdout, cell4Vars, evalVars,
                 reads>>

\* print('Model Converted')
PrintConverted ==
  /\ pc = "print_converted"
  /\ stdout' = Append(stdout, [text |-> "Model Converted", value |-> 0])
  /\ Return("print_converted", "stat")
  /\ UNCHANGED <<dataVars, fs, convVars, genVars, xxd_rc, cell4Vars, evalVars, reads>>

\* ---- cell 4 ---------------------------------------------------------------------------

\* tflite_size = pathlib.Path('../artifacts/eurosat.tflite').stat().st_size / 1024
\* (the variable holds the size in 1/1024 kb)
StatTflite ==
  /\ pc = "stat"
  /\ IF fs[TFLITE].kind = "none"
       THEN tflite_size' = tflite_size /\ Raise("stat")
       ELSE tflite_size' = StSize(fs[TFLITE]) /\ Return("stat", "stat_header")
  /\ UNCHANGED <<dataVars, fs, convVars, genVars, xxd_rc, stdout, header_size,
                 evalVars, reads>>

\* header_size = pathlib.Path('../lite/pico/eurosat.h').stat().st_size / 1024
StatHeader ==
  /\ pc = "stat_header"
  /\ IF fs[PICO].kind = "none"
       THEN header_size' = header_size /\ Raise("stat_header")
       ELSE header_size' = StSize(fs[PICO]) /\ Return("stat_header", "print_sizes")
  /\ UNCHANGED <<dataVars, fs, convVars, genVars, xxd_rc, stdout, tflite_size,
                 evalVars, reads>>

\* f"{x:.2f}" of x = n / 1024: hundredths of a kb, rounded to nearest
Kb(n) == (200 * n + 1024) \div 2048

\* print(f"TFLite Model Size: ..."); print(f"Header File Size: ...")
PrintSizes ==
  /\ pc = "print_sizes"
  /\ stdout' = stdout \o <<[text |-> "TFLite Model Size", value |-> Kb(tflite_size)],
                           [text |-> "Header File Size", value |-> Kb(header_size)]>>
  /\ Return("print_sizes", "interpreter")
  /\ UNCHANGED <<dataVars, fs, convVars, genVars, xxd_rc, cell4Vars, evalVars, reads>>

\* ---- cell 6 ---------------------------------------------------------------------------

Called(op, id) == Append(api, [op |-> op, id |-> id])

\* lite = tf.lite.Interpreter('../artifacts/eurosat.tflite')
NewInterpreter ==
  /\ pc = "interpreter"
  /\ \/ /\ fs[TFLITE].kind = "bin"
        /\ lite' = [NoInterpreter EXCEPT !.loaded = TRUE, !.bytes = fs[TFLITE].bytes]
        /\ api' = Called("Interpreter", 0)
        /\ Return("interpreter", "allocate_tensors")
     \/ /\ UNCHANGED <<lite, api>>
        /\ Raise("interpreter")
  /\ UNCHANGED <<dataVars, fs, convVars, genVars, xxd_rc, stdout, cell4Vars, loopVars,
                 val_accuracy, reads>>

\* lite.allocate_tensors()
AllocateTensors ==
  /\ pc = "allocate_tensors"
  /\ lite' = [lite EXCEPT !.allocated = TRUE]
  /\ api' = Called("allocate_tensors", 0)
  /\ Return("allocate_tensors", "lists")
  /\ UNCHANGED <<dataVars, fs, convVars, genVars, xxd_rc, stdout, cell4Vars, loopVars,
                 val_accuracy, reads>>

\* true = []; pred = []
InitLists ==
  /\ pc = "lists"
  /\ true' = <<>>
  /\ pred' = <<>>
  /\ Return("lists", "for")
  /\ UNCHANGED <<dataVars, fs, convVars, genVars, xxd_rc, stdout, cell4Vars, lite, it,
                 image, label, output, result, val_accuracy, api, reads>>

\* faulty variant: the loop runs over the first batch only, val.take(1).unbatch()
ForNextFirstBatch ==
  /\ pc = "for"
  /\ LET firstRecords == Unbatch(Take(val, 1))
     IN  IF it < Len(firstRecords)
           THEN /\ image' = firstRecords[it + 1].image
                /\ label' = firstRecords[it + 1].label
                /\ it' = it + 1
                /\ reads' = reads \cup {[dataset |-> "val", by |-> "evaluation_loop"]}
                /\ pc' = "set_tensor"
           ELSE /\ UNCHANGED <<image, label, it, reads>>
                /\ pc' = "accuracy_score"
  /\ UNCHANGED <<error, log, dataVars, fs, convVars, genVars, xxd_rc, stdout, cell4Vars,
                 lite, true, pred, output, result, val_accuracy, api>>

\* for image, label in val.unbatch():
ForNext ==
  /\ pc = "for"
  /\ LET unbatched == Unbatch(val)
     IN  IF it < Len(unbatched)
           THEN /\ image' = unbatched[it + 1].image
                /\ label' = unbatched[it + 1].label
                /\ it' = it + 1
                /\ reads' = reads \cup {[dataset |-> "val", by |-> "evaluation_loop"]}
                /\ pc' = "set_tensor"
           ELSE /\ UNCHANGED <<image, label, it, reads>>
                /\ pc' = "accuracy_score"
  /\ UNCHANGED <<error, log, dataVars, fs, convVars, genVars, xxd_rc, stdout, cell4Vars,
                 lite, true, pred, output, result, val_accuracy, api>>

\* lite.set_tensor(lite.get_input_details()[0]['index'], [image])
SetTensor ==
  /\ pc = "set_tensor"
  /\ \/ /\ lite.allocated
        /\ lite' = [lite EXCEPT !.input = <<image>>]
        /\ api' = Called("set_tensor", image.id)
        /\ Return("set_tensor", "invoke")
     \/ /\ UNCHANGED <<lite, api>>
        /\ Raise("set_tensor")
  /\ UNCHANGED <<dataVars, fs, convVars, genVars, xxd_rc, stdout, cell4Vars, loopVars,
                 val_accuracy, reads>>

\* faulty variant: lite.invoke() is missing, the output tensor is read as it stands
InvokeMissing ==
  /\ pc = "invoke"
  /\ UNCHANGED <<lite, api>>
  /\ Return("invoke", "get_tensor")
  /\ UNCHANGED <<dataVars, fs, convVars, genVars, xxd_rc, stdout, cell4Vars, loopVars,
                 val_accuracy, reads>>

\* lite.invoke()
Invoke ==
  /\ pc = "invoke"
  /\ \/ /\ lite.allocated
        /\ lite' = [lite EXCEPT !.output = Infer(lite.bytes, lite.input)]
        /\ api' = Called("invoke", 0)
        /\ Return("invoke", "get_tensor")
     \/ /\ UNCHANGED <<lite, api>>
        /\ Raise("invoke")
  /\ UNCHANGED <<dataVars, fs, convVars, genVars, xxd_rc, stdout, cell4Vars, loopVars,
                 val_accuracy, reads>>

\* output = lite.get_tensor(lite.get_output_details()[0]['index'])
GetTensor ==
  /\ pc = "get_tensor"
  /\ output' = lite.output
  /\ api' = Called("get_tensor", 0)
  /\ Return("get_tensor", "argmax")
  /\ UNCHANGED <<dataVars, fs, convVars, genVars, xxd_rc, stdout, cell4Vars, lite, true,
                 pred, it, image, label, result, val_accuracy, reads>>

\* result = np.argmax(output)
ArgmaxOutput ==
  /\ pc = "argmax"
  /\ result' = Argmax(output)
  /\ Return("argmax", "append_true")
  /\ UNCHANGED <<dataVars, fs, convVars, genVars, xxd_rc, stdout, cell4Vars, lite, true,
                 pred, it, image, label, output, val_accuracy, api, reads>>

\* true.append(label)
AppendTrue ==
  /\ pc = "append_true"
  /\ true' = Append(true, label)
  /\ Return("append_true", "append_pred")
  /\ UNCHANGED <<dataVars, fs, convVars, genVars, xxd_rc, stdout, cell4Vars, lite, pred,
                 it, image, label, output, result, val_accuracy, api, reads>>

\* faulty variant: pred.insert(0, result)
AppendPredInFront ==
  /\ pc = "append_pred"
  /\ pred' = <<result>> \o pred
  /\ Return("append_pred", "for")
  /\ UNCHANGED <<dataVars, fs, convVars, genVars, xxd_rc, stdout, cell4Vars, lite, true,
                 it, image, label, output, result, val_accuracy, api, reads>>

\* pred.append(result)
AppendPred ==
  /\ pc = "append_pred"
  /\ pred' = Append(pred, result)
  /\ Return("append_pred", "for")
  /\ UNCHANGED <<dataVars, fs, convVars, genVars, xxd_rc, stdout, cell4Vars, lite, true,
                 it, image, label, output, result, val_accuracy, api, reads>>

\* val_accuracy = metrics.accuracy_score(true, pred)
ComputeAccuracy ==
  /\ pc = "accuracy_score"
  /\ IF Len(true) # Len(pred) \/ true = <<>>
       THEN val_accuracy' = val_accuracy /\ Raise("accuracy_score")
       ELSE val_accuracy' = AccuracyScore(true, pred)
            /\ Return("accuracy_score", "print_accuracy")
  /\ UNCHANGED <<dataVars, fs, convVars, genVars, xxd_rc, stdout, cell4Vars, lite,
                 loopVars, api, reads>>

\* print(f"Validation Accuracy: {val_accuracy * 100:.2f}%")
PrintAccuracy ==
  /\ pc = "print_accuracy"
  /\ stdout' = Append(stdout, [text |-> "Validation Accuracy",
                               value |-> Percent(val_accuracy)])
  /\ Return("print_accuracy", "done")
  /\ UNCHANGED <<dataVars, fs, convVars, genVars, xxd_rc, cell4Vars, evalVars, reads>>

\* ---- the run ----------------------------------------------------------------------------

Next ==
  \/ LoadEurosat
  \/ LoadModel
  \/ FromKerasModel
  \/ SetOptimizations
  \/ SetRepresentativeDataset
  \/ GeneratorStart
  \/ GeneratorYield
  \/ GeneratorStop
  \/ Convert
  \/ WriteTflite
  \/ RunXxd
  \/ MoveHeader
  \/ PrintConverted
  \/ StatTflite
  \/ StatHeader
  \/ PrintSizes
  \/ NewInterpreter
  \/ AllocateTensors
  \/ InitLists
  \/ ForNext
  \/ SetTensor
  \/ Invoke
  \/ GetTensor
  \/ ArgmaxOutput
  \/ AppendTrue
  \/ AppendPred
  \/ ComputeAccuracy
  \/ PrintAccuracy

Spec == Init /\ [][Next]_vars

\* the kernel executes the next statement as long as there is one
FairSpec == Spec /\ WF_vars(Next)

\* ---- properties -----------------------------------------------------------------------

records == Unbatch(val)

\* the statements `stage` has completed so far (position in the log)
Executions(stage) == {i \in 1..Len(log) : log[i].stage = stage}

\* `stage` has returned normally
Succeeded(stage) == \E i \in Executions(stage) : log[i].ok

\* True while `stage` is running or after it has run
Started(stage) ==
  \/ Executions(stage) # {}
  \/ stage = "convert" /\ pc = "convert" /\ (gen.active \/ calls > 0)

StageOrder == <<"load_model", "optimizations", "representative_dataset", "convert",
                "write", "xxd", "move", "interpreter", "invoke">>

\* stage a has finished (returned; for every stage but xxd that means: succeeded)
\* before statement number j of the run
FinishedBefore(a, j) ==
  \E i \in 1..(j - 1) : log[i].stage = a /\ (log[i].ok \/ a = "xxd")

\* C1: the stages run in the fixed order load model, configure quantization with the
\* hook, convert, write eurosat.tflite, xxd, move, interpreter, inference; no stage
\* starts before its predecessor has finished, xxd and the interpreter never run before
\* eurosat.tflite has been written, the move never runs before xxd.
C1_StagesInOrder ==
  /\ \A k \in 1..(Len(StageOrder) - 1) :
       /\ \A j \in Executions(StageOrder[k + 1]) : FinishedBefore(StageOrder[k], j)
       /\ Started(StageOrder[k + 1]) => FinishedBefore(StageOrder[k], Len(log) + 1)
  /\ \A j \in Executions("xxd") \cup Executions("interpreter") :
       /\ FinishedBefore("write", j)
       /\ fs[TFLITE].kind = "bin"
  /\ \A k \in 1..(Len(StageOrder) - 1) : Cardinality(Executions(StageOrder[k])) <= 1

C1_Witness ==
  /\ pc = "done"
  /\ \A k \in 1..Len(StageOrder) : Executions(StageOrder[k]) # {}

\* C2: a failed step stops the run: no statement executes after a failed one, and
\* 'Model Converted' is never printed after a failed step.
C2_FailureStopsRun ==
  \A i \in 1..Len(log) : ~log[i].ok => i = Len(log)

\* the number of validation records the quantized model classifies correctly
CorrectRecords ==
  {i \in 1..Len(records) :
     Argmax(Infer(lite.bytes, <<records[i].image>>)) = records[i].label}

\* C3: the reported validation accuracy is (number of validation records whose argmax
\* of the quantized model's output equals the true label) / (number of validation
\* records), and so lies between 0 and 1 (0% and 100% as printed).
C3_AccuracyIsFractionCorrect ==
  /\ pc \in {"print_accuracy", "done"} =>
       /\ val_accuracy.correct = Cardinality(CorrectRecords)
       /\ val_accuracy.total = Len(records)
       /\ 0 <= val_accuracy.correct /\ val_accuracy.correct <= val_accuracy.total
  /\ pc = "done" =>
       /\ stdout[Len(stdout)].text = "Validation Accuracy"
       /\ stdout[Len(stdout)].value \in 0..10000
       /\ stdout[Len(stdout)].value * 2 * Len(records) \in
            (20000 * Cardinality(CorrectRecords) - Len(records) + 1) ..
            (20000 * Cardinality(CorrectRecords) + Len(records))

C3_Witness ==
  /\ pc = "done"
  /\ 0 < val_accuracy.correct
  /\ val_accuracy.correct < val_accuracy.total

\* the images handed to the interpreter / the number of inferences, in call order
RECURSIVE SetTensorIds(_)
SetTensorIds(calllog) ==
  IF calllog = <<>> THEN <<>>
  ELSE (IF Head(calllog).op = "set_tensor" THEN <<Head(calllog).id>> ELSE <<>>)
         \o SetTensorIds(Tail(calllog))
Invocations == {i \in 1..Len(api) : api[i].op = "invoke"}

OneInferencePerRecord ==
  /\ Cardinality(Invocations) = Len(records)
  /\ SetTensorIds(api) = [i \in 1..Len(records) |-> records[i].image.id]
  /\ it = Len(records)

\* C4: the loop over the validation records terminates after exactly one inference per
\* record, each record visited once in dataset order, and the run then reaches the
\* final accuracy report (unless a statement raises, which stops the run).
C4_LoopTerminates ==
  /\ <>(pc = "failed" \/ (pc = "done" /\ OneInferencePerRecord))
  /\ [](pc \in {"accuracy_score", "print_accuracy", "done"} => OneInferencePerRecord)

C4_Witness ==
  /\ pc = "done"
  /\ Len(val) > 1
  /\ Cardinality(Invocations) = MaxVal

\* the header xxd wrote in this run, wherever it is now
HeaderOfRun == IF Succeeded("move") THEN fs[PICO] ELSE fs[HEADER]

\* C5: the model evaluated is the one re-loaded from ../artifacts/eurosat.tflite, whose
\* bytes are those converter.convert() returned and the run wrote; the same file is
\* the one xxd transcodes and whose size is reported; the Keras model is not evaluated.
C5_EvaluatesConvertedBytes ==
  /\ Succeeded("write") => fs[TFLITE] = BinFile(tflite_model)
  /\ lite.loaded => lite.bytes = tflite_model /\ lite.bytes = fs[TFLITE].bytes
  /\ xxd_rc = 0 => HeaderOfRun = HeaderFile(tflite_model, Len(tflite_model))
  /\ tflite_size # -1 => tflite_size = Len(tflite_model)
  /\ pc \in {"argmax", "append_true", "append_pred"} =>
       output = Infer(tflite_model, <<image>>)

C5_Witness ==
  /\ pc = "done"
  /\ tflite_model # StaleBytes
  /\ xxd_rc = 0

\* C6: the test dataset is read only by the representative dataset generator, the
\* validation dataset only by the evaluation loop, the training split by nothing.
C6_DatasetRoles ==
  /\ \A r \in reads :
       /\ r.dataset = "test" => r.by = "representative_dataset_generator"
       /\ r.dataset = "val" => r.by = "evaluation_loop"
       /\ r.dataset # "train"
  /\ \A i \in 1..Len(gen.images) : gen.images[i].split = "test"
  /\ \A i \in 1..Len(samples) : \A j \in 1..Len(samples[i]) : samples[i][j].split = "test"
  /\ image.split \in {"", "val"}
  /\ \A i \in 1..Len(lite.input) : lite.input[i].split = "val"

C6_Witness ==
  /\ pc = "done"
  /\ Cardinality(reads) = 2

\* the calibration sample the generator has to yield for image i of the first batch
FirstBatch == test[1]
Sample(i) == <<[split |-> "test", id |-> FirstBatch[i].image.id,
                pixels |-> FirstBatch[i].image.pixels, dtype |-> "float32", rank |-> 4]>>

\* C7: each invocation of representative_dataset_generator yields one sample per image
\* of the first test batch, in batch order, each a one-element list holding the image
\* as a float32 array of rank 4; nothing of a later batch; a second invocation starts
\* again from the first batch.
C7_GeneratorYieldsFirstBatch ==
  pc = "convert" /\ calls > 0 =>
    /\ Len(samples) <= Len(FirstBatch)
    /\ \A i \in 1..Len(samples) : samples[i] = Sample(i)
    /\ gen.active => Len(samples) = gen.idx
    /\ ~gen.active => Len(samples) = Len(FirstBatch)

C7_Witness ==
  /\ pc = "convert"
  /\ calls = 2
  /\ ~gen.active
  /\ Len(test) > 1
  /\ Len(samples) = BatchSize

InterpreterCycle == <<"set_tensor", "invoke", "get_tensor">>

\* C8: allocate_tensors is called exactly once, before any set_tensor; per record the
\* calls are set_tensor, invoke, get_tensor in this order, so the output read for a
\* record comes from an invoke that followed the set_tensor of that record.
C8_InterpreterProtocol ==
  /\ \A k \in 1..Len(api) :
       IF k = 1 THEN api[k].op = "Interpreter"
       ELSE IF k = 2 THEN api[k].op = "allocate_tensors"
       ELSE /\ api[k].op = InterpreterCycle[1 + ((k - 3) % 3)]
            /\ api[k].op = "set_tensor" => api[k].id = records[1 + ((k - 3) \div 3)].image.id
  /\ pc \in {"argmax", "append_true", "append_pred"} =>
       /\ output = Infer(lite.bytes, <<image>>)
       /\ image = records[it].image
  /\ pc = "append_pred" => result = Argmax(Infer(lite.bytes, <<records[it].image>>))

C8_Witness ==
  /\ pc = "done"
  /\ Len(api) >= 2 + 3 * 2

IsPrefix(s, t) == Len(s) <= Len(t) /\ SubSeq(t, 1, Len(s)) = s

\* C9: between iterations of the evaluation loop true and pred have the same length,
\* the number of records processed so far, and their i-th entries come from record i;
\* an entry once appended is never changed or removed.
C9_ListsInStep ==
  /\ [](pc = "for" =>
          /\ Len(true) = it /\ Len(pred) = it
          /\ \A i \in 1..it :
               /\ true[i] = records[i].label
               /\ pred[i] = Argmax(Infer(lite.bytes, <<records[i].image>>)))
  /\ [][IsPrefix(true, true') /\ IsPrefix(pred, pred')]_vars

C9_Witness ==
  /\ pc = "for"
  /\ it = 2
  /\ Len(true) = 2
  /\ true[1] # true[2]
  /\ pred[1] # pred[2]

====
